---- MODULE Spec2Model ----
(***************************************************************************)
(* Model of Deep_signatures_optimal_stopping.py: the exercise grids of the *)
(* two pricers, the upper bound of DeepDualPricer.price, the model objects *)
(* LongstaffSchwartzModel (the Regressor) and DualNetworkModel, and the    *)
(* backward induction and test evaluation of                               *)
(* DeepLongstaffSchwartzPricer.price.                                      *)
(*                                                                         *)
(* Three specifications share the variables; each leaves the variables of  *)
(* the other components at their idle values:                              *)
(*   SpecGrid  the exercise grids (subindex, subindex2) of both pricers,   *)
(*             and for DeepDualPricer the indices of the training loss and *)
(*             the terms of the upper bound                                *)
(*   SpecReg   one LongstaffSchwartzModel or DualNetworkModel instance,    *)
(*             from its construction on, and the calls made on it          *)
(*   SpecLS    one call of DeepLongstaffSchwartzPricer.price               *)
(* Calls into Keras/TensorFlow are opaque: whether such a call raises, and *)
(* the numbers a trained network predicts, are nondeterministic choices.   *)
(***************************************************************************)
EXTENDS Integers, Sequences, FiniteSets

VARIABLES
    \* ---- exercise grid (SpecGrid) ----
    gpc,          \* "idle" | "start" | "built" | "network" | "priced" | "raised"
    pricer,       \* "LS" (DeepLongstaffSchwartzPricer) | "Dual" (DeepDualPricer)
    N,            \* simulation steps: N (LS, line 101) or N_actual (Dual, line 367)
    gN1,          \* self.N1 of the pricer whose grid is built
    subindex,     \* the list subindex, a sequence (Dual: after clipping)
    subindex2,    \* the list subindex2, a sequence (Dual: after clipping)
    cfgN,         \* self.N of DeepDualPricer, the configured number of steps
    payoff_steps, \* the time dimension of the payoff tensors (line 364)
    valid_indices,\* the list valid_indices of build_network_dual, a sequence
    loss_terms,   \* the terms Y - rule the training loss maximises over: per term
                  \*   the time index of the payoff and the steps summed in the rule
    bound_terms,  \* the same for the terms of diffs (line 446)
    gexc          \* the exception that escaped DeepDualPricer.price, or "none"

VARIABLES
    \* ---- one LongstaffSchwartzModel or DualNetworkModel instance (SpecReg) ----
    rpc,                 \* "idle" | "new" (the constructor is about to run) | "live" |
                         \*   "failed" (the constructor raised)
    cls,                 \* the class of the instance
    feature_dim,         \* the argument feature_dim (d for a DualNetworkModel)
    rule_model,          \* self.rule_model of a DualNetworkModel: "shared" (built on the
                         \*   layers of self.model) | "placeholder" (built by the
                         \*   constructor call of load) | "none"
    saved,               \* the artifact save wrote, or NoArtifact
    loaded,              \* the instance is the one load returned
    compilation_failed,  \* the attribute compilation_failed; FALSE: never set
    compiled,            \* how self.model was last compiled: "none" | "eager" | "deferred"
    weights,             \* the parameters of self.model, an abstract value
    rlast                \* the last call made on the instance and its outcome

VARIABLES
    \* ---- one call of DeepLongstaffSchwartzPricer.price (SpecLS) ----
    lpc,            \* position in price: "idle" | "start" | "loop" | "fit" | "update" |
                    \*   "test" | "returned" | "raised"
    mode,           \* self.mode
    N1,             \* self.N1, the number of exercise dates
    T,              \* self.T, the time horizon
    M,              \* training paths
    M_val,          \* the argument M_val
    M2,             \* testing paths
    epochsArg,      \* the argument epochs as the caller passed it
    epochs,         \* the local epochs
    k,              \* the loop variable of the backward induction (k, or j in
                    \*   American Option mode); 0 once the loop is over
    M_old,          \* the local M_old (Standard mode)
    value,          \* the array value: per path the payoff column it holds and the
                    \*   number of factors dtt applied to it
    value_new,      \* the array value_new (Standard mode)
    regr,           \* the list regr; regr[d] here is regr[d-1] of the code
    ITM,            \* the list ITM of this date (American Option mode), as a set of rows
    fitRows,        \* rows of the training set sliced for this date's fit
    valRows,        \* rows sliced as validation data for this date's fit
    transfer,       \* the weight transfer of this date: "none" | "ok" | "failed"
    fitEpochs,      \* the epochs passed to this date's fit; 0 before the call
    everOk,         \* history: some weight transfer of this call has succeeded
    skipped,        \* history: the dates skipped for want of in-the-money paths
    fitted,         \* history: the dates whose fit call returned
    exc,            \* the exception that escaped price, or "none"
    m,              \* the test path being evaluated (0-based, as in the code)
    i,              \* the exercise date index of the while loop (0-based)
    tpay,           \* Payoff_exercise_testing[m, i] as last read
    treg,           \* reg[m, i] as last read
    tdec,           \* what the last evaluation decided: "none" | "continue" | "stop" | "last"
    value_testing   \* the entry of value_testing last written: the path, the date
                    \*   index i it is exercised at, the payoff there and the time
                    \*   it is discounted over (times N1)

gridIn == <<pricer, N, gN1, cfgN, payoff_steps>>
gridVars == <<gpc, gridIn, subindex, subindex2, valid_indices, loss_terms, bound_terms, gexc>>
regKeep == <<cls, feature_dim, rule_model, saved, loaded>>
regVars == <<rpc, compilation_failed, compiled, weights, rlast, regKeep>>
lsIn == <<mode, N1, T, M, M_val, M2, epochsArg>>
lsTrain == <<epochs, k, M_old, value, value_new, regr, ITM, fitRows, valRows,
             transfer, fitEpochs, everOk, skipped, fitted>>
lsTest == <<m, i, tpay, treg, tdec, value_testing>>
lsVars == <<lpc, exc, lsIn, lsTrain, lsTest>>

-----------------------------------------------------------------------------
(* Bounds of the grid model *)
MaxN == 6
MaxN1 == 6

(* The value None of Python *)
None == "None"

(* int(a / b) for integers a >= 0, b > 0: Python's true division followed   *)
(* by truncation toward zero; for the small non-negative operands used here *)
(* the float quotient truncates to the integer quotient.                    *)
IntDiv(a, b) == a \div b

Min(a, b) == IF a <= b THEN a ELSE b

(* lines 103 and 376: subindex = [int((j+1)*N/N1) for j in range(N1)] *)
SubindexRaw(n, n1) == [j \in 1..n1 |-> IntDiv(j * n, n1)]

(* lines 104 and 377: subindex2 = [int(j*N/N1) for j in range(N1+1)] *)
Subindex2Raw(n, n1) == [j \in 1..(n1 + 1) |-> IntDiv((j - 1) * n, n1)]

(* DeepLongstaffSchwartzPricer.price uses the lists unclipped *)
SubindexLS(n, n1) == SubindexRaw(n, n1)
Subindex2LS(n, n1) == Subindex2Raw(n, n1)

(* mutant of SubindexDual: the clipping of line 380 left out *)
SubindexDualNoClip(n, n1) == SubindexRaw(n, n1)

(* line 380: subindex = [min(idx, N_actual-1) for idx in subindex] *)
SubindexDual(n, n1) == [j \in 1..n1 |-> Min(SubindexRaw(n, n1)[j], n - 1)]

(* line 381: subindex2 = [min(idx, N_actual) for idx in subindex2] *)
Subindex2Dual(n, n1) == [j \in 1..(n1 + 1) |-> Min(Subindex2Raw(n, n1)[j], n)]

(* DeepLongstaffSchwartzPricer.price, lines 100-104 *)
BuildGridLS ==
    /\ gpc = "start" /\ pricer = "LS"
    /\ subindex' = SubindexLS(N, gN1)
    /\ subindex2' = Subindex2LS(N, gN1)
    /\ gpc' = "built"
    /\ UNCHANGED <<gridIn, valid_indices, loss_terms, bound_terms, gexc, regVars, lsVars>>

(* DeepDualPricer.price, lines 375-381 *)
BuildGridDual ==
    /\ gpc = "start" /\ pricer = "Dual"
    /\ subindex' = SubindexDual(N, gN1)
    /\ subindex2' = Subindex2Dual(N, gN1)
    /\ gpc' = "built"
    /\ UNCHANGED <<gridIn, valid_indices, loss_terms, bound_terms, gexc, regVars, lsVars>>

(* Range(s): the elements of the sequence s *)
Range(s) == {s[j] : j \in 1..Len(s)}

(* mutant of ValidIndices: the padding loop of lines 710-711 left out *)
ValidIndicesNoPad(n, n2) ==
    IF n - 1 <= n2 - 1
    THEN [j \in 1..(n - 1) |-> IntDiv((j - 1) * (n2 - 1), n - 1)]
    ELSE [j \in 1..(n2 - 1) |-> j - 1]

(* DualNetworkModel.build_network_dual, lines 693-711: valid_indices for    *)
(* n_indices_needed = n-1 exercise dates and n2-1 discretization points     *)
ValidIndices(n, n2) ==
    IF n - 1 <= n2 - 1
    THEN [j \in 1..(n - 1) |-> IntDiv((j - 1) * (n2 - 1), n - 1)]
    ELSE [j \in 1..(n - 1) |-> IF j <= n2 - 1 THEN j - 1 ELSE n2 - 2]

(* DeepMartingales.call, line 611: column t of tf.cumsum(rule * dW, axis=1) *)
(* is the sum of control*increment over the steps 0..t                      *)
CumSumSteps(t) == 0..t

(* lines 687 and 719-722: the terms of the loss, Y gathered at idx paired   *)
(* with the rule gathered at the same idx; column idx of the trimmed payoff *)
(* (line 410) is the payoff at time index idx                               *)
LossTerms(indices) == {[Y |-> idx, rule |-> CumSumSteps(idx)] : idx \in Range(indices)}

(* line 440: column t of MG_with_zeros is the prepended zero for t = 0 and  *)
(* column t-1 of MG otherwise                                               *)
MGWithZerosSteps(t) == IF t = 0 THEN {} ELSE CumSumSteps(t - 1)

(* line 445: valid_indices = [idx for idx in subindex2 if idx < N_actual+1] *)
ValidSubindex2(s2, n) == {idx \in Range(s2) : idx < n + 1}

(* line 446: the terms of diffs *)
BoundTerms(s2, n) == {[Y |-> idx, rule |-> MGWithZerosSteps(idx)] : idx \in ValidSubindex2(s2, n)}

(* line 446: Payoff_testing[:, valid_indices] reads inside the tensor *)
PayoffReadsInRange(s2, n, steps) == \A idx \in ValidSubindex2(s2, n) : idx < steps

(* DeepDualPricer.price, lines 384-425: the network is built for n = N1+1   *)
(* and n2 = N_actual+1, compiled and trained on the loss of line 722        *)
BuildNetworkDual ==
    /\ gpc = "built" /\ pricer = "Dual"
    /\ valid_indices' = ValidIndices(gN1 + 1, N + 1)
    /\ loss_terms' = LossTerms(ValidIndices(gN1 + 1, N + 1))
    /\ gpc' = "network"
    /\ UNCHANGED <<gridIn, subindex, subindex2, bound_terms, gexc, regVars, lsVars>>

(* DeepDualPricer.price, lines 428-454: the rule on the testing paths, the  *)
(* zero prepended, diffs and the upper bound; an index outside the payoff   *)
(* tensor raises IndexError at line 446                                     *)
UpperBoundDual ==
    /\ gpc = "network" /\ pricer = "Dual"
    /\ IF PayoffReadsInRange(subindex2, N, payoff_steps)
       THEN /\ bound_terms' = BoundTerms(subindex2, N)
            /\ gpc' = "priced"
            /\ gexc' = gexc
       ELSE /\ gpc' = "raised"
            /\ gexc' = "IndexError"
            /\ bound_terms' = bound_terms
    /\ UNCHANGED <<gridIn, subindex, subindex2, valid_indices, loss_terms, regVars, lsVars>>

GridNext == BuildGridLS \/ BuildGridDual \/ BuildNetworkDual \/ UpperBoundDual

-----------------------------------------------------------------------------
(* LongstaffSchwartzModel (the Regressor)                                   *)

(* Bounds of the Regressor model: parameter values, rows of an input batch, *)
(* feature dimensions                                                       *)
MaxWeight == 2
MaxRows == 2
MaxFeatureDim == 1

Classes == {"LongstaffSchwartzModel", "DualNetworkModel"}
(* the feature dimensions a caller may pass, non-positive ones included *)
FeatureDims == (0 - 1)..MaxFeatureDim

WeightVals == 0..MaxWeight
FreshWeights == 0
NoArtifact == [present |-> FALSE, w |-> FreshWeights, compiled |-> "none"]
(* what a caller may pass as X: a numpy array, or a plain list of rows,     *)
(* which has no attribute shape                                             *)
XKinds == {"ndarray", "list"}

(* lines 527-534: the attempts compile makes, in order, with their outcome; *)
(* eagerOK and deferredOK say whether self.model.compile with and without   *)
(* run_eagerly=True returns normally                                        *)
CompileAttempts(eagerOK, deferredOK) ==
    IF eagerOK
    THEN <<[how |-> "eager", ok |-> TRUE]>>
    ELSE <<[how |-> "eager", ok |-> FALSE], [how |-> "deferred", ok |-> deferredOK]>>

(* mutant of CompileSetsFlag: the flag raised as soon as the eager attempt fails *)
CompileSetsFlagOnEager(eagerOK, deferredOK) == ~eagerOK

(* lines 535-538: compilation_failed = True in the innermost handler only *)
CompileSetsFlag(eagerOK, deferredOK) == ~eagerOK /\ ~deferredOK

(* the compile state of self.model after compile *)
CompiledAfter(before, eagerOK, deferredOK) ==
    IF eagerOK THEN "eager" ELSE IF deferredOK THEN "deferred" ELSE before

(* lines 543 and 566: hasattr(self, 'compilation_failed') and self.compilation_failed *)
Degraded(flag) == flag

(* lines 541-562, fit: what the call returns. innerOK: self.model.fit       *)
(* returns normally; a model never compiled makes self.model.fit raise.     *)
FitReturn(flag, comp, innerOK) ==
    IF Degraded(flag) THEN "None"
    ELSE IF comp # "none" /\ innerOK THEN "History"
    ELSE "None"

(* lines 564-578, predict: "pred" (the network's output), "zeros" (the      *)
(* fallback np.zeros((X.shape[0], 1))) or the exception that escapes:       *)
(* X.shape is read on the caller's X, not on the converted X_np.            *)
PredictReturn(flag, xkind, innerOK) ==
    IF Degraded(flag)
    THEN IF xkind = "list" THEN "AttributeError" ELSE "zeros"
    ELSE IF innerOK THEN "pred"
    ELSE IF xkind = "list" THEN "AttributeError" ELSE "zeros"

(* lines 770-788, DualNetworkModel.predict: both fallbacks handle a list of *)
(* arrays (X[0].shape) and an array (X.shape)                               *)
PredictReturnDual(flag, xkind, innerOK) ==
    IF Degraded(flag) THEN "zeros"
    ELSE IF innerOK THEN "pred"
    ELSE "zeros"

(* lines 574 and 781: predict reads self.model in LongstaffSchwartzModel    *)
(* and self.rule_model in DualNetworkModel                                  *)
PredictReads(c, rm) ==
    IF c = "DualNetworkModel" THEN (IF rm = "placeholder" THEN "placeholder" ELSE "rule_model")
    ELSE "model"

(* the parameters behind a prediction: a rule_model built by                *)
(* build_network_dual shares the layers of self.model; the placeholder of   *)
(* load has its own, freshly initialized                                    *)
PredictWeights(c, rm, w) ==
    IF c = "DualNetworkModel" /\ rm = "placeholder" THEN FreshWeights ELSE w

(* lines 593-597: only LongstaffSchwartzModel defines get_weights and       *)
(* set_weights                                                              *)
HasWeightAccessors(c) == c = "LongstaffSchwartzModel"

(* lines 482-491 (and 638): whether the network build of the constructor    *)
(* may return (TRUE) or raise (FALSE); for a non-positive feature_dim that  *)
(* is up to layers.Input and layers.Dense                                   *)
BuildOutcomes(c, dim) ==
    IF c = "LongstaffSchwartzModel" /\ dim <= 0 THEN {TRUE, FALSE} ELSE {TRUE}

NoCall ==
    [op |-> "none", attempts |-> <<>>, flagBefore |-> FALSE, wBefore |-> FreshWeights,
     xkind |-> "ndarray", rows |-> 0, inner |-> TRUE, ret |-> "None", raised |-> "none",
     built |-> FALSE, reads |-> "none", wRead |-> FreshWeights]

(* lines 471-482 and 624-638, __init__: the arguments are stored and the    *)
(* network is built; nothing checks feature_dim                             *)
RConstruct ==
    /\ rpc = "new"
    /\ \E buildOK \in BuildOutcomes(cls, feature_dim) :
        /\ rpc' = IF buildOK THEN "live" ELSE "failed"
        /\ rule_model' = IF buildOK /\ cls = "DualNetworkModel" THEN "shared" ELSE "none"
        /\ rlast' = [NoCall EXCEPT !.op = "__init__", !.built = TRUE, !.inner = buildOK,
                                   !.raised = IF buildOK THEN "none" ELSE "KerasError"]
    /\ UNCHANGED <<compilation_failed, compiled, weights, cls, feature_dim, saved, loaded,
                   gridVars, lsVars>>

(* lines 525-539, compile *)
RCompile ==
    /\ rpc = "live"
    /\ \E eagerOK \in BOOLEAN, deferredOK \in BOOLEAN :
        /\ compilation_failed' =
              IF CompileSetsFlag(eagerOK, deferredOK) THEN TRUE ELSE compilation_failed
        /\ compiled' = CompiledAfter(compiled, eagerOK, deferredOK)
        /\ rlast' = [NoCall EXCEPT !.op = "compile",
                                   !.attempts = CompileAttempts(eagerOK, deferredOK),
                                   !.flagBefore = compilation_failed,
                                   !.wBefore = weights]
    /\ UNCHANGED <<rpc, weights, regKeep, gridVars, lsVars>>

(* lines 541-562, fit: a successful self.model.fit leaves new parameters;   *)
(* a skipped or failed one leaves them as they were                         *)
RFit ==
    /\ rpc = "live"
    /\ \E xkind \in XKinds, rows \in 1..MaxRows, innerOK \in BOOLEAN, w \in WeightVals :
        LET ret == FitReturn(compilation_failed, compiled, innerOK) IN
        /\ weights' = IF ret = "History" THEN w ELSE weights
        /\ rlast' = [NoCall EXCEPT !.op = "fit", !.flagBefore = compilation_failed,
                                   !.wBefore = weights, !.xkind = xkind, !.rows = rows,
                                   !.inner = (compiled # "none" /\ innerOK),
                                   !.ret = ret]
    /\ UNCHANGED <<rpc, compilation_failed, compiled, regKeep, gridVars, lsVars>>

(* lines 564-578 and 770-788, predict *)
RPredict ==
    /\ rpc = "live"
    /\ \E xkind \in XKinds, rows \in 1..MaxRows, innerOK \in BOOLEAN :
        LET ret == IF cls = "DualNetworkModel"
                   THEN PredictReturnDual(compilation_failed, xkind, innerOK)
                   ELSE PredictReturn(compilation_failed, xkind, innerOK) IN
        rlast' = [NoCall EXCEPT !.op = "predict", !.flagBefore = compilation_failed,
                                !.wBefore = weights, !.xkind = xkind, !.rows = rows,
                                !.inner = innerOK,
                                !.ret = IF ret = "AttributeError" THEN "None" ELSE ret,
                                !.raised = IF ret = "AttributeError" THEN ret ELSE "none",
                                !.reads = PredictReads(cls, rule_model),
                                !.wRead = PredictWeights(cls, rule_model, weights)]
    /\ UNCHANGED <<rpc, compilation_failed, compiled, weights, regKeep, gridVars, lsVars>>

(* lines 596-597, set_weights: Keras raises ValueError on weights that do   *)
(* not fit the architecture                                                 *)
RSetWeights ==
    /\ rpc = "live" /\ HasWeightAccessors(cls)
    /\ \E w \in WeightVals, fits \in BOOLEAN :
        /\ weights' = IF fits THEN w ELSE weights
        /\ rlast' = [NoCall EXCEPT !.op = "set_weights", !.flagBefore = compilation_failed,
                                   !.wBefore = weights, !.inner = fits,
                                   !.raised = IF fits THEN "none" ELSE "ValueError"]
    /\ UNCHANGED <<rpc, compilation_failed, compiled, regKeep, gridVars, lsVars>>

(* lines 593-594, get_weights *)
RGetWeights ==
    /\ rpc = "live" /\ HasWeightAccessors(cls)
    /\ rlast' = [NoCall EXCEPT !.op = "get_weights", !.flagBefore = compilation_failed,
                               !.wBefore = weights, !.ret = "weights"]
    /\ UNCHANGED <<rpc, compilation_failed, compiled, weights, regKeep, gridVars, lsVars>>

(* get_weights or set_weights called on a DualNetworkModel, which defines   *)
(* neither: AttributeError, and the instance is as it was                   *)
RNoAccessor ==
    /\ rpc = "live" /\ ~HasWeightAccessors(cls)
    /\ \E op \in {"get_weights", "set_weights"} :
        rlast' = [NoCall EXCEPT !.op = op, !.flagBefore = compilation_failed,
                                !.wBefore = weights, !.inner = FALSE,
                                !.raised = "AttributeError"]
    /\ UNCHANGED <<rpc, compilation_failed, compiled, weights, regKeep, gridVars, lsVars>>

(* lines 583-584 and 793-794, save: self.model is written, with its         *)
(* parameters and compile state; rule_model and compilation_failed are not  *)
RSave ==
    /\ rpc = "live"
    /\ saved' = [present |-> TRUE, w |-> weights, compiled |-> compiled]
    /\ rlast' = [NoCall EXCEPT !.op = "save", !.flagBefore = compilation_failed,
                               !.wBefore = weights]
    /\ UNCHANGED <<rpc, compilation_failed, compiled, weights, cls, feature_dim, rule_model,
                   loaded, gridVars, lsVars>>

(* lines 800-801: load assigns instance.model only; instance.rule_model     *)
(* stays the one cls(n=1, n2=1, I=1, q=1, d=...) built                      *)
LoadedRuleModel(c) == IF c = "DualNetworkModel" THEN "placeholder" ELSE "none"

(* lines 588-589 and 798-800: whether models.load_model and the            *)
(* constructor call of load may return (TRUE) or raise (FALSE). For a       *)
(* DualNetworkModel that is up to Keras: the saved network holds the layers *)
(* DeepMartingales and DualStoppingLoss, and the constructor builds a       *)
(* network over n2-1 = 0 time steps                                         *)
LoadOutcomes(c, dim) ==
    IF c = "DualNetworkModel" THEN {TRUE, FALSE} ELSE BuildOutcomes(c, dim)

(* lines 586-591 and 796-802, load: the saved network is read, a new        *)
(* instance is constructed (layers_number=0, nodes=0, or n=1, n2=1) and its *)
(* attribute model is replaced by the loaded network. From here on the      *)
(* instance followed is the one load returned: it has no attribute          *)
(* compilation_failed. ctorOK: load_model and the constructor call return.  *)
RLoad ==
    /\ rpc = "live" /\ saved.present
    /\ \E ctorOK \in LoadOutcomes(cls, feature_dim) :
        IF ctorOK
        THEN /\ weights' = saved.w
             /\ compiled' = saved.compiled
             /\ compilation_failed' = FALSE
             /\ rule_model' = LoadedRuleModel(cls)
             /\ loaded' = TRUE
             /\ rlast' = [NoCall EXCEPT !.op = "load", !.flagBefore = compilation_failed,
                                        !.wBefore = weights, !.built = TRUE]
        ELSE /\ rlast' = [NoCall EXCEPT !.op = "load", !.flagBefore = compilation_failed,
                                        !.wBefore = weights, !.built = TRUE, !.inner = FALSE,
                                        !.raised = "KerasError"]
             /\ UNCHANGED <<weights, compiled, compilation_failed, rule_model, loaded>>
    /\ UNCHANGED <<rpc, cls, feature_dim, saved, gridVars, lsVars>>

RegNext ==
    \/ RConstruct \/ RCompile \/ RFit \/ RPredict
    \/ RSetWeights \/ RGetWeights \/ RNoAccessor \/ RSave \/ RLoad

-----------------------------------------------------------------------------
(* DeepLongstaffSchwartzPricer.price                                        *)

(* Bounds of the price model: exercise dates, training paths, held-out     *)
(* paths, testing paths                                                     *)
MaxDates == 4
MaxM == 2
MaxMval == 1
MaxM2 == 1

(* line 78: the default of the argument epochs, which the callers modelled  *)
(* here leave as it is                                                      *)
DefaultEpochs == 100
EpochArgs == {DefaultEpochs}

(* line 255: the value written into reg for a date without a regressor *)
NoRegressorValue == 100000000

Modes == {"Standard", "American Option", "Bermudan"}
(* time horizons self.T, in years *)
Horizons == {1, 2}

(* mutant of KnownModes: the final else branch of lines 245-246 left out *)
KnownModesAny == Modes

(* lines 118 and 190: the modes price has a branch for *)
KnownModes == {"Standard", "American Option"}
(* payoffs of the training paths, payoffs of the testing paths and the     *)
(* numbers a network predicts                                               *)
TrainPayoffVals == {0, 1}
TestPayoffVals == {-1, 0, 1, NoRegressorValue}
PredVals == {-2, 0, 2}

(* an entry None of the list regr, and a constructed LongstaffSchwartzModel *)
NoneRegr == [isNone |-> TRUE, compilation_failed |-> FALSE, w |-> "none"]
NewRegr == [isNone |-> FALSE, compilation_failed |-> FALSE, w |-> "fresh"]

NoExercise == [path |-> -1, ex |-> 0, pay |-> 0, time |-> 0]

(* line 105: ttt = np.linspace(0, self.T, self.N1 + 1), so ttt[j] = j*T/N1; *)
(* the model keeps N1 * ttt[j], an integer                                  *)
TttTimesN1(j, horizon) == j * horizon

(* lines 268 and 278: the payoff is multiplied by                           *)
(* exp(-r * T * (ttt[i+1] - ttt[1])); N1 times the time that multiplies -r  *)
DiscountTimeTimesN1(ix, horizon) ==
    horizon * (TttTimesN1(ix + 1, horizon) - TttTimesN1(1, horizon))

(* Python's a[lo:hi] on a sequence of length len: the bound x as an offset *)
PyIdx(len, x) ==
    IF x < 0 THEN (IF x + len < 0 THEN 0 ELSE x + len)
    ELSE IF x > len THEN len ELSE x
(* the rows a[lo:hi] selects, counted from 1 *)
PySlice(len, lo, hi) == {r \in 1..len : PyIdx(len, lo) < r /\ r <= PyIdx(len, hi)}

(* value * dtt: one more factor dtt on every entry *)
Discounted(v) == [r \in 1..Len(v) |-> [v[r] EXCEPT !.disc = @ + 1]]

(* line 541: the keyword parameters of LongstaffSchwartzModel.fit *)
FitParams == {"epochs", "batch_size", "verbose", "callbacks"}
(* lines 157-175: the keywords of the Standard-mode call of fit *)
StdFitKeywords(mval) ==
    IF mval = 0 THEN {"batch_size", "epochs", "verbose", "callbacks"}
    ELSE {"batch_size", "epochs", "verbose", "validation_data", "callbacks"}
(* lines 229-236: the keywords of the American-mode call of fit *)
AmFitKeywords == {"batch_size", "epochs", "verbose", "callbacks"}
(* Python binds a call only if every keyword names a parameter; TypeError otherwise *)
CallBinds(keywords, params) == keywords \subseteq params

(* mutant of EpochsAfterTransfer: the budget left alone after a transfer *)
EpochsKept(ok, e) == e

(* lines 147-151 and 218-222: epochs = 1 follows a set_weights that returned *)
EpochsAfterTransfer(ok, e) == IF ok THEN 1 ELSE e

(* lines 143-153 and 214-224: the regressor after the warm start. attempt:  *)
(* k < N1-1; fits: set_weights returns rather than raising ValueError       *)
AfterTransfer(new, later, attempt, fits) ==
    IF attempt /\ fits THEN [new EXCEPT !.w = later.w] ELSE new

(* lines 130-141 and 201-212: construction and compile of a date's regressor *)
Compiled(eagerOK, deferredOK) ==
    [NewRegr EXCEPT !.compilation_failed = CompileSetsFlag(eagerOK, deferredOK)]

(* fit on a regressor of the list: its parameters afterwards *)
AfterFit(r, innerOK) ==
    IF FitReturn(r.compilation_failed,
                 IF r.compilation_failed THEN "none" ELSE "compiled", innerOK) = "History"
    THEN [r EXCEPT !.w = "trained"] ELSE r

(* predict on a regressor of the list with an array of rows: the network's *)
(* output pred, or zeros                                                    *)
Predicted(r, innerOK, pred) ==
    IF PredictReturn(r.compilation_failed, "ndarray", innerOK) = "pred" THEN pred ELSE 0

(* the values predict may return for one row *)
Predictions(r) == {Predicted(r, innerOK, pred) : innerOK \in BOOLEAN, pred \in PredVals}

(* mutant of RegEntries: a missing regressor read as prediction zero *)
RegEntriesZero(r) == IF r.isNone THEN {0} ELSE Predictions(r)

(* lines 252-258: the values reg[m, j] may hold *)
RegEntries(r) == IF r.isNone THEN {NoRegressorValue} ELSE Predictions(r)

(* lines 266 and 276: the condition of the while loop apart from i < N1-1 *)
Continue(md, reg, pay) ==
    IF md = "Standard" THEN reg > pay
    ELSE pay = 0 \/ reg > pay

(* lines 100-122 and 190: the slices at the exercise dates, regr, value,    *)
(* and the branch on self.mode (M_old = M in Standard mode)                 *)
PriceStart ==
    /\ lpc = "start" /\ mode \in KnownModes
    /\ regr' = [d \in 1..(N1 - 1) |-> NoneRegr]
    /\ value' = [r \in 1..M |-> [col |-> N1, disc |-> 0]]
    /\ M_old' = IF mode = "Standard" THEN M ELSE M_old
    /\ k' = N1 - 1
    /\ lpc' = "loop"
    /\ UNCHANGED <<exc, lsIn, epochs, value_new, ITM, fitRows, valRows, transfer,
                   fitEpochs, everOk, skipped, fitted, lsTest, gridVars, regVars>>

(* lines 100-116 and 245-246: any other mode raises ValueError; regr is     *)
(* the list of None built at line 113                                       *)
PriceInvalidMode ==
    /\ lpc = "start" /\ mode \notin KnownModes
    /\ regr' = [d \in 1..(N1 - 1) |-> NoneRegr]
    /\ value' = [r \in 1..M |-> [col |-> N1, disc |-> 0]]
    /\ lpc' = "raised"
    /\ exc' = "ValueError"
    /\ UNCHANGED <<lsIn, epochs, k, M_old, value_new, ITM, fitRows, valRows, transfer,
                   fitEpochs, everOk, skipped, fitted, lsTest, gridVars, regVars>>

(* Standard mode, lines 123-154: the slices of this date, the new regressor, *)
(* its compile and the warm start from regr[k]                              *)
StdPrepare ==
    /\ lpc = "loop" /\ mode = "Standard" /\ k >= 1
    /\ LET M_new == M_old - M_val IN
       /\ fitRows' = PySlice(M, 0, M_new)
       /\ valRows' = PySlice(M, M_new, M_old)
       /\ value_new' = Discounted(SubSeq(value, 1, PyIdx(Len(value), M_new)))
    /\ \E eagerOK \in BOOLEAN, deferredOK \in BOOLEAN, fits \in BOOLEAN :
        /\ regr' = [regr EXCEPT ![k] =
                      AfterTransfer(Compiled(eagerOK, deferredOK),
                                    IF k < N1 - 1 THEN regr[k + 1] ELSE NoneRegr,
                                    k < N1 - 1, fits)]
        /\ transfer' = IF k < N1 - 1 THEN (IF fits THEN "ok" ELSE "failed") ELSE "none"
        /\ epochs' = EpochsAfterTransfer(k < N1 - 1 /\ fits, epochs)
        /\ everOk' = (everOk \/ (k < N1 - 1 /\ fits))
    /\ fitEpochs' = 0
    /\ lpc' = "fit"
    /\ UNCHANGED <<exc, lsIn, k, M_old, value, ITM, skipped, fitted, lsTest,
                   gridVars, regVars>>

(* Standard mode, lines 155-175: the call of fit, with validation_data when *)
(* M_val is not 0; a call that does not bind raises TypeError out of price  *)
StdFit ==
    /\ lpc = "fit" /\ mode = "Standard"
    /\ fitEpochs' = epochs
    /\ IF CallBinds(StdFitKeywords(M_val), FitParams)
       THEN /\ \E innerOK \in BOOLEAN : regr' = [regr EXCEPT ![k] = AfterFit(@, innerOK)]
            /\ fitted' = fitted \cup {k}
            /\ lpc' = "update"
            /\ exc' = exc
       ELSE /\ lpc' = "raised"
            /\ exc' = "TypeError"
            /\ UNCHANGED <<regr, fitted>>
    /\ UNCHANGED <<lsIn, epochs, k, M_old, value, value_new, ITM, fitRows, valRows,
                   transfer, everOk, skipped, lsTest, gridVars, regVars>>

(* Standard mode, lines 180-187: predict on the fitting rows, the exercise  *)
(* decision per path, value = value_new, M_old = M_new                      *)
StdUpdate ==
    /\ lpc = "update" /\ mode = "Standard"
    /\ LET M_new == M_old - M_val
           rows == 1..M_new IN
       \E reg \in [rows -> Predictions(regr[k])], pay \in [rows -> TrainPayoffVals] :
          /\ value' = [r \in 1..Len(value_new) |->
                         IF r \in rows /\ reg[r] <= pay[r]
                         THEN [col |-> k, disc |-> 0]
                         ELSE value_new[r]]
          /\ M_old' = M_new
    /\ k' = k - 1
    /\ lpc' = "loop"
    /\ UNCHANGED <<exc, lsIn, epochs, value_new, regr, ITM, fitRows, valRows, transfer,
                   fitEpochs, everOk, skipped, fitted, lsTest, gridVars, regVars>>

(* American Option mode, lines 194-199: the discount, the in-the-money      *)
(* paths of this date, and the date skipped when there are fewer than two   *)
AmSkip ==
    /\ lpc = "loop" /\ mode = "American Option" /\ k >= 1
    /\ value' = Discounted(value)
    /\ \E itm \in SUBSET (1..M) :
        /\ Cardinality(itm) <= 1
        /\ ITM' = itm
    /\ skipped' = skipped \cup {k}
    /\ k' = k - 1
    /\ UNCHANGED <<lpc, exc, lsIn, epochs, M_old, value_new, regr, fitRows, valRows,
                   transfer, fitEpochs, everOk, fitted, lsTest, gridVars, regVars>>

(* American Option mode, lines 194-224 with two or more in-the-money paths: *)
(* the new regressor, its compile and the warm start; regr[j] is None when  *)
(* the later date was skipped, and regr[j].get_weights() then raises        *)
(* AttributeError, which except ValueError does not catch                   *)
AmPrepare ==
    /\ lpc = "loop" /\ mode = "American Option" /\ k >= 1
    /\ value' = Discounted(value)
    /\ \E itm \in SUBSET (1..M) :
        /\ Cardinality(itm) > 1
        /\ ITM' = itm
        /\ fitRows' = itm
    /\ valRows' = {}
    /\ fitEpochs' = 0
    /\ \E eagerOK \in BOOLEAN, deferredOK \in BOOLEAN, fits \in BOOLEAN :
        IF k < N1 - 1 /\ regr[k + 1].isNone
        THEN /\ regr' = [regr EXCEPT ![k] = Compiled(eagerOK, deferredOK)]
             /\ lpc' = "raised"
             /\ exc' = "AttributeError"
             /\ UNCHANGED <<transfer, epochs, everOk>>
        ELSE /\ regr' = [regr EXCEPT ![k] =
                           AfterTransfer(Compiled(eagerOK, deferredOK),
                                         IF k < N1 - 1 THEN regr[k + 1] ELSE NoneRegr,
                                         k < N1 - 1, fits)]
             /\ transfer' = IF k < N1 - 1 THEN (IF fits THEN "ok" ELSE "failed") ELSE "none"
             /\ epochs' = EpochsAfterTransfer(k < N1 - 1 /\ fits, epochs)
             /\ everOk' = (everOk \/ (k < N1 - 1 /\ fits))
             /\ lpc' = "fit"
             /\ exc' = exc
    /\ UNCHANGED <<lsIn, k, M_old, value_new, skipped, fitted, lsTest, gridVars, regVars>>

(* American Option mode, lines 226-236: the call of fit on the ITM rows *)
AmFit ==
    /\ lpc = "fit" /\ mode = "American Option"
    /\ fitEpochs' = epochs
    /\ IF CallBinds(AmFitKeywords, FitParams)
       THEN /\ \E innerOK \in BOOLEAN : regr' = [regr EXCEPT ![k] = AfterFit(@, innerOK)]
            /\ fitted' = fitted \cup {k}
            /\ lpc' = "update"
            /\ exc' = exc
       ELSE /\ lpc' = "raised"
            /\ exc' = "TypeError"
            /\ UNCHANGED <<regr, fitted>>
    /\ UNCHANGED <<lsIn, epochs, k, M_old, value, value_new, ITM, fitRows, valRows,
                   transfer, everOk, skipped, lsTest, gridVars, regVars>>

(* American Option mode, lines 238-243: predict on the ITM rows, whose      *)
(* payoff at this date is positive, and the exercise decision per ITM path  *)
AmUpdate ==
    /\ lpc = "update" /\ mode = "American Option"
    /\ \E value_estimate \in [ITM -> Predictions(regr[k])],
          pay \in [ITM -> {p \in TrainPayoffVals : p > 0}] :
          value' = [r \in 1..Len(value) |->
                      IF r \in ITM /\ value_estimate[r] <= pay[r]
                      THEN [col |-> k, disc |-> 0]
                      ELSE value[r]]
    /\ k' = k - 1
    /\ lpc' = "loop"
    /\ UNCHANGED <<exc, lsIn, epochs, M_old, value_new, regr, ITM, fitRows, valRows,
                   transfer, fitEpochs, everOk, skipped, fitted, lsTest, gridVars, regVars>>

(* lines 248-250: the backward induction is over and the test evaluation   *)
(* begins. The locals of the induction (value, value_new, M_old, ITM) are   *)
(* not read again and leave the state, with the record of the last date.    *)
TestBegin ==
    /\ lpc = "loop" /\ k = 0
    /\ lpc' = "test"
    /\ m' = 0 /\ i' = 0
    /\ value' = <<>> /\ value_new' = <<>> /\ M_old' = 0 /\ ITM' = {}
    /\ fitRows' = {} /\ valRows' = {} /\ transfer' = "none" /\ fitEpochs' = 0
    /\ UNCHANGED <<exc, lsIn, epochs, k, regr, everOk, skipped, fitted,
                   tpay, treg, tdec, value_testing, gridVars, regVars>>

(* lines 252-258 for the entry reg[m, i] and lines 266/276: the condition of *)
(* the while loop holds and i advances                                      *)
TestContinue ==
    /\ lpc = "test" /\ m < M2 /\ i < N1 - 1
    /\ \E pay \in TestPayoffVals, reg \in RegEntries(regr[i + 1]) :
        /\ Continue(mode, reg, pay)
        /\ tpay' = pay /\ treg' = reg
    /\ tdec' = "continue"
    /\ i' = i + 1
    /\ UNCHANGED <<lpc, exc, lsIn, lsTrain, m, value_testing, gridVars, regVars>>

(* lines 252-258 for the entry reg[m, i] and lines 266-268/276-278: the     *)
(* condition of the while loop fails at a date before the last and the path *)
(* is exercised there                                                       *)
TestExercise ==
    /\ lpc = "test" /\ m < M2 /\ i < N1 - 1
    /\ \E pay \in TestPayoffVals, reg \in RegEntries(regr[i + 1]) :
        /\ ~Continue(mode, reg, pay)
        /\ tpay' = pay /\ treg' = reg
        /\ value_testing' = [path |-> m, ex |-> i, pay |-> pay,
                             time |-> DiscountTimeTimesN1(i, T)]
    /\ tdec' = "stop"
    /\ m' = m + 1
    /\ i' = 0
    /\ UNCHANGED <<lpc, exc, lsIn, lsTrain, gridVars, regVars>>

(* lines 266-268/276-278 with i = N1-1: the loop ends at the last exercise  *)
(* date, where reg holds the zero of line 250 and is not read               *)
TestLast ==
    /\ lpc = "test" /\ m < M2 /\ i = N1 - 1
    /\ \E pay \in TestPayoffVals :
        /\ tpay' = pay /\ treg' = 0
        /\ value_testing' = [path |-> m, ex |-> i, pay |-> pay,
                             time |-> DiscountTimeTimesN1(i, T)]
    /\ tdec' = "last"
    /\ m' = m + 1
    /\ i' = 0
    /\ UNCHANGED <<lpc, exc, lsIn, lsTrain, gridVars, regVars>>

(* lines 280-283: the mean and deviation of value_testing are returned with regr *)
Return ==
    /\ lpc = "test" /\ m = M2
    /\ lpc' = "returned"
    /\ UNCHANGED <<exc, lsIn, lsTrain, lsTest, gridVars, regVars>>

LSNext ==
    \/ PriceStart \/ PriceInvalidMode
    \/ StdPrepare \/ StdFit \/ StdUpdate
    \/ AmSkip \/ AmPrepare \/ AmFit \/ AmUpdate
    \/ TestBegin \/ TestContinue \/ TestExercise \/ TestLast \/ Return

-----------------------------------------------------------------------------
(* Initial states of the three specifications                               *)

(* the exercise grid is about to be built: N steps and N1 exercise dates,  *)
(* as lines 100-102 (or 359-367) read them from the shapes and from self;  *)
(* no regressor and no call of price                                        *)
GridInit ==
    /\ gpc = "start"
    /\ pricer \in {"LS", "Dual"}
    /\ N \in 1..MaxN
    /\ gN1 \in 1..MaxN1
    \* DeepDualPricer: self.N is any step count, the payoff tensors have N_actual
    \* or N_actual+1 columns; DeepLongstaffSchwartzPricer reads neither
    /\ cfgN \in 1..MaxN /\ payoff_steps \in {N, N + 1}
    /\ (pricer = "LS" => (cfgN = N /\ payoff_steps = N + 1))
    /\ subindex = <<>>
    /\ subindex2 = <<>>
    /\ valid_indices = <<>> /\ loss_terms = {} /\ bound_terms = {} /\ gexc = "none"
    \* the other components are idle
    /\ rpc = "idle" /\ compilation_failed = FALSE /\ compiled = "none"
    /\ weights = FreshWeights /\ rlast = NoCall
    /\ cls = None /\ feature_dim = 0 /\ rule_model = "none"
    /\ saved = NoArtifact /\ loaded = FALSE
    /\ lpc = "idle" /\ exc = "none"
    /\ mode = None /\ N1 = 0 /\ T = 0 /\ M = 0 /\ M_val = 0 /\ M2 = 0 /\ epochsArg = 0
    /\ epochs = 0 /\ k = 0 /\ M_old = 0 /\ value = <<>> /\ value_new = <<>>
    /\ regr = <<>> /\ ITM = {} /\ fitRows = {} /\ valRows = {}
    /\ transfer = "none" /\ fitEpochs = 0 /\ everOk = FALSE
    /\ skipped = {} /\ fitted = {}
    /\ m = 0 /\ i = 0 /\ tpay = 0 /\ treg = 0 /\ tdec = "none" /\ value_testing = NoExercise

(* the constructor of either class is about to be called with the          *)
(* arguments the caller chose; no instance yet, so no attribute             *)
(* compilation_failed; no grid and no call of price                         *)
RegInit ==
    /\ rpc = "new" /\ compilation_failed = FALSE /\ compiled = "none"
    /\ weights = FreshWeights /\ rlast = NoCall
    /\ cls \in Classes
    /\ feature_dim \in FeatureDims
    \* the claims about DualNetworkModel are about instances with d >= 1
    /\ (cls = "DualNetworkModel" => feature_dim >= 1)
    /\ rule_model = "none" /\ saved = NoArtifact /\ loaded = FALSE
    \* the other components are idle
    /\ gpc = "idle" /\ pricer = None /\ N = 0 /\ gN1 = 0 /\ cfgN = 0 /\ payoff_steps = 0
    /\ subindex = <<>> /\ subindex2 = <<>>
    /\ valid_indices = <<>> /\ loss_terms = {} /\ bound_terms = {} /\ gexc = "none"
    /\ lpc = "idle" /\ exc = "none"
    /\ mode = None /\ N1 = 0 /\ T = 0 /\ M = 0 /\ M_val = 0 /\ M2 = 0 /\ epochsArg = 0
    /\ epochs = 0 /\ k = 0 /\ M_old = 0 /\ value = <<>> /\ value_new = <<>>
    /\ regr = <<>> /\ ITM = {} /\ fitRows = {} /\ valRows = {}
    /\ transfer = "none" /\ fitEpochs = 0 /\ everOk = FALSE
    /\ skipped = {} /\ fitted = {}
    /\ m = 0 /\ i = 0 /\ tpay = 0 /\ treg = 0 /\ tdec = "none" /\ value_testing = NoExercise

(* price is entered: the arguments and self as the caller set them; no     *)
(* grid and no separate regressor                                           *)
LSInit ==
    /\ lpc = "start" /\ exc = "none"
    /\ mode \in Modes
    /\ N1 \in 1..MaxDates
    /\ T \in Horizons
    /\ M \in 1..MaxM
    \* M_val is read in Standard mode only; it does not exceed the paths there are
    /\ M_val \in 0..MaxMval /\ M_val <= M /\ (mode # "Standard" => M_val = 0)
    /\ M2 \in 1..MaxM2
    /\ epochsArg \in EpochArgs
    /\ epochs = epochsArg
    /\ k = 0 /\ M_old = 0 /\ value = <<>> /\ value_new = <<>>
    /\ regr = <<>> /\ ITM = {} /\ fitRows = {} /\ valRows = {}
    /\ transfer = "none" /\ fitEpochs = 0 /\ everOk = FALSE
    /\ skipped = {} /\ fitted = {}
    /\ m = 0 /\ i = 0 /\ tpay = 0 /\ treg = 0 /\ tdec = "none" /\ value_testing = NoExercise
    \* the other components are idle
    /\ gpc = "idle" /\ pricer = None /\ N = 0 /\ gN1 = 0 /\ cfgN = 0 /\ payoff_steps = 0
    /\ subindex = <<>> /\ subindex2 = <<>>
    /\ valid_indices = <<>> /\ loss_terms = {} /\ bound_terms = {} /\ gexc = "none"
    /\ rpc = "idle" /\ compilation_failed = FALSE /\ compiled = "none"
    /\ weights = FreshWeights /\ rlast = NoCall
    /\ cls = None /\ feature_dim = 0 /\ rule_model = "none"
    /\ saved = NoArtifact /\ loaded = FALSE

-----------------------------------------------------------------------------
StrictlyIncreasing(s) == \A n \in 1..(Len(s) - 1) : s[n] < s[n + 1]
NonDecreasing(s) == \A n \in 1..(Len(s) - 1) : s[n] <= s[n + 1]
AllAtMost(s, b) == \A n \in 1..Len(s) : s[n] <= b

(* C1, as stated: for every N >= 1 and N1 >= 1 the built grids (subindex2  *)
(* and subindex of both pricers, the Dual ones after clipping) are strictly *)
(* increasing and no index exceeds N.                                       *)
C1_Original ==
    gpc = "built" =>
        /\ StrictlyIncreasing(subindex) /\ StrictlyIncreasing(subindex2)
        /\ AllAtMost(subindex, N) /\ AllAtMost(subindex2, N)

(* C1, amended: no index of a built grid exceeds N and the grids are       *)
(* non-decreasing; subindex2 is strictly increasing exactly when N1 <= N,  *)
(* the unclipped subindex of DeepLongstaffSchwartzPricer exactly when      *)
(* N1 <= N + 1, and the clipped subindex of DeepDualPricer exactly when    *)
(* N1 < N or N1 = 1.                                                       *)
C1_Grid ==
    gpc = "built" =>
        /\ AllAtMost(subindex, N) /\ AllAtMost(subindex2, N)
        /\ NonDecreasing(subindex) /\ NonDecreasing(subindex2)
        /\ Len(subindex) = gN1 /\ Len(subindex2) = gN1 + 1
        /\ StrictlyIncreasing(subindex2) <=> (gN1 <= N)
        /\ pricer = "LS" => (StrictlyIncreasing(subindex) <=> (gN1 <= N + 1))
        /\ pricer = "Dual" =>
              (StrictlyIncreasing(subindex) <=> (gN1 < N \/ gN1 = 1))

(* C1 witness: a Dual grid built with 2 <= N1 < N, where clipping moved the *)
(* last exercise index and the grid is still strictly increasing.           *)
C1_Witness ==
    /\ gpc = "built" /\ pricer = "Dual" /\ gN1 >= 2 /\ gN1 < N
    /\ subindex[gN1] = N - 1
    /\ StrictlyIncreasing(subindex) /\ StrictlyIncreasing(subindex2)

(* C13: for N1 = n-1 >= 1 exercise dates and n2-1 >= 1 discretization       *)
(* points, valid_indices has exactly N1 entries, each in 0..n2-2, and is    *)
(* non-decreasing; for N1 <= n2-1 the entries are int(i*(n2-1)/N1),         *)
(* i = 0..N1-1, and for N1 > n2-1 they are 0..n2-2 followed by n2-2         *)
(* repeated (N1 = 5 and 3 points give 0,1,2,2,2). Here n2-1 = N.            *)
C13_Indices ==
    (pricer = "Dual" /\ gpc \in {"network", "priced", "raised"}) =>
        /\ Len(valid_indices) = gN1
        /\ \A j \in 1..gN1 : valid_indices[j] \in 0..(N - 1)
        /\ NonDecreasing(valid_indices)
        /\ gN1 <= N => \A j \in 1..gN1 : valid_indices[j] = ((j - 1) * N) \div gN1
        /\ gN1 > N => \A j \in 1..gN1 : valid_indices[j] = (IF j <= N THEN j - 1 ELSE N - 1)
        /\ (gN1 = 5 /\ N = 3) => valid_indices = <<0, 1, 2, 2, 2>>

(* C13 witness: the network built for 5 exercise dates on 3 discretization  *)
(* points, the last index repeated                                          *)
C13_Witness ==
    /\ pricer = "Dual" /\ gpc = "network" /\ gN1 = 5 /\ N = 3
    /\ valid_indices = <<0, 1, 2, 2, 2>>

(* C14, as stated: DeepDualPricer.price never fails on a dimension mismatch: *)
(* for any configured N and payoff tensors of N_actual or N_actual+1        *)
(* columns every index read is inside its tensor and price returns.         *)
C14_Original ==
    pricer = "Dual" =>
        /\ gpc # "raised" /\ gexc = "none"
        /\ gpc = "priced" =>
              /\ \A idx \in ValidSubindex2(subindex2, N) : idx < payoff_steps /\ idx < N + 1
              /\ \A idx \in Range(valid_indices) : idx < Min(payoff_steps, N)

(* C17, as stated: the training loss and the upper bound evaluate            *)
(* payoff - rule over the same time indices with the same alignment: the    *)
(* rule paired with the payoff at time index t sums control*increment over  *)
(* the steps strictly before t.                                             *)
C17_Original ==
    (pricer = "Dual" /\ gpc = "priced") =>
        /\ {t.Y : t \in loss_terms} = {t.Y : t \in bound_terms}
        /\ \A t \in loss_terms \cup bound_terms : t.rule = 0..(t.Y - 1)

-----------------------------------------------------------------------------
AllFailed(attempts) == \A n \in 1..Len(attempts) : ~attempts[n].ok

C12_Original ==
    cls = "LongstaffSchwartzModel" =>
        /\ rpc = "live" => feature_dim > 0
        /\ (rlast.op = "__init__" /\ feature_dim <= 0) =>
              (rlast.raised # "none" /\ ~rlast.built)

(* C16, as stated: after save and load of a trained instance of either      *)
(* class, predict is computed from the saved parameters, as the original's  *)
(* was, and reads no model left at its freshly constructed placeholder.     *)
C16_Original ==
    (loaded /\ saved.w # FreshWeights /\ weights = saved.w
        /\ rlast.op = "predict" /\ rlast.inner /\ ~rlast.flagBefore) =>
        /\ rlast.ret = "pred" /\ rlast.raised = "none"
        /\ rlast.reads # "placeholder"
        /\ rlast.wRead = saved.w

(* C18, as stated: once compilation_failed is set on an instance of either  *)
(* class, no compile, fit, predict, set_weights or get_weights call clears  *)
(* it: every later fit is a no-op and every later predict returns zeros.    *)
C18_Original ==
    (rlast.op \in {"compile", "fit", "predict", "set_weights", "get_weights"}
        /\ rlast.flagBefore) =>
        /\ compilation_failed
        /\ rlast.op = "fit" =>
              (rlast.ret = "None" /\ rlast.raised = "none" /\ weights = rlast.wBefore)
        /\ rlast.op = "predict" => (rlast.ret = "zeros" /\ rlast.raised = "none")

(* C10, as stated: in degraded mode fit returns nothing and leaves the      *)
(* parameters unchanged, and predict returns zeros with one row per input   *)
(* row without raising; a failure inside fit or predict of an instance not  *)
(* in degraded mode is handled the same way.                                *)
C10_Original ==
    /\ (rlast.op = "fit" /\ (rlast.flagBefore \/ ~rlast.inner)) =>
          (rlast.raised = "none" /\ rlast.ret = "None" /\ weights = rlast.wBefore)
    /\ (rlast.op = "predict" /\ (rlast.flagBefore \/ ~rlast.inner)) =>
          (rlast.raised = "none" /\ rlast.ret = "zeros")

-----------------------------------------------------------------------------
(* the exercise date index i at which tpay and treg were last read *)
LastDate == IF tdec = "continue" THEN i - 1 ELSE value_testing.ex

(* the condition under which the specification has a test path exercised   *)
(* at a date before the last                                                *)
StopRule(md, reg, pay) ==
    IF md = "Standard" THEN reg <= pay
    ELSE pay > 0 /\ reg <= pay

(* C2, as stated: a test path is exercised at the first of the first N1-1   *)
(* dates where the prediction is <= the payoff (Standard) or the payoff is  *)
(* positive and the prediction is <= the payoff (American Option), and at   *)
(* the last date otherwise, whatever the payoffs, negative ones included:   *)
(* the walk passes a date only if the rule fails there, stops only if it    *)
(* holds, and reaches the last date only by passing every other.            *)
C2_Original ==
    lpc \in {"test", "returned"} =>
        /\ tdec = "continue" => ~StopRule(mode, treg, tpay)
        /\ tdec = "stop" => (StopRule(mode, treg, tpay) /\ value_testing.ex < N1 - 1)
        /\ tdec = "last" => value_testing.ex = N1 - 1

(* C3, as stated: in American Option mode a date with fewer than 2         *)
(* in-the-money training paths keeps the entry None, and no test path,      *)
(* whatever its payoff, is exercised at a date before the last whose        *)
(* regressor is None.                                                       *)
C3_Original ==
    mode = "American Option" =>
        /\ \A d \in skipped : regr[d].isNone
        /\ (lpc \in {"test", "returned"} /\ tdec = "stop") =>
              ~regr[value_testing.ex + 1].isNone

(* C3, amended: in American Option mode a date with fewer than 2           *)
(* in-the-money training paths keeps the entry None (and only such a date   *)
(* does), and at test time such a date has continuation value 10^8: a test  *)
(* path is exercised at a date before the last whose regressor is None if   *)
(* and only if its payoff there is at least 10^8.                           *)
C3_Skipped ==
    (mode = "American Option" /\ lpc # "start") =>
        /\ \A d \in skipped : regr[d].isNone
        /\ \A d \in (k + 1)..(N1 - 1) : regr[d].isNone => d \in skipped
        /\ (lpc \in {"test", "returned"} /\ tdec \in {"continue", "stop"}
              /\ regr[LastDate + 1].isNone) =>
              /\ treg = NoRegressorValue
              /\ tdec = "stop" <=> tpay >= NoRegressorValue

(* C3 witness: a test path with a positive payoff passes a date that was    *)
(* skipped in training, and price returns the list with that entry None     *)
C3_Witness ==
    /\ mode = "American Option" /\ lpc = "test" /\ tdec = "continue"
    /\ (LastDate + 1) \in skipped /\ regr[LastDate + 1].isNone
    /\ tpay = 1 /\ treg = NoRegressorValue

(* C4, as stated: in American Option mode, when the later date was skipped  *)
(* and this date has 2 or more in-the-money paths, this date's regressor is *)
(* trained from its fresh initialization and no exception escapes price.    *)
C4_Original ==
    (mode = "American Option" /\ k >= 1 /\ k < N1 - 1 /\ lpc # "loop"
        /\ (k + 1) \in skipped /\ ~regr[k].isNone) =>
        /\ exc = "none" /\ lpc # "raised"
        /\ transfer # "ok" /\ regr[k].w \in {"fresh", "trained"}

(* C5, as stated: in Standard mode the epochs passed to a date's fit are 1  *)
(* if the weight transfer into that date's regressor succeeded, and the     *)
(* caller's epochs if it failed or was not attempted.                       *)
C5_Original ==
    (mode = "Standard" /\ fitEpochs # 0) =>
        fitEpochs = IF transfer = "ok" THEN 1 ELSE epochsArg

(* C6, as stated: in American Option mode every fit is called with the      *)
(* caller's epochs, whether or not weights were transferred.                *)
C6_Original ==
    (mode = "American Option" /\ fitEpochs # 0) => fitEpochs = epochsArg

(* C6, amended: in American Option mode warm start reduces the budget as in *)
(* Standard mode: a date's fit is called with 1 epoch once a weight         *)
(* transfer has succeeded at that date or at a date processed before it,    *)
(* and with the caller's epochs until then.                                 *)
C6_Epochs ==
    (mode = "American Option" /\ fitEpochs # 0) =>
        /\ fitEpochs = IF everOk THEN 1 ELSE epochsArg
        /\ transfer = "ok" => fitEpochs = 1

(* C6 witness: an American Option fit called with 1 epoch after a transfer  *)
C6_Witness ==
    /\ mode = "American Option" /\ lpc = "update"
    /\ transfer = "ok" /\ fitEpochs = 1 /\ epochsArg > 1

(* C7, as stated: in Standard mode every date k = N1-1 .. 1 is fitted, on   *)
(* the first M - M_val paths with the last M_val paths as validation set,   *)
(* the same at every date.                                                  *)
C7_Original ==
    mode = "Standard" =>
        /\ fitEpochs # 0 =>
              /\ fitRows = 1..(M - M_val)
              /\ valRows = (M - M_val + 1)..M
        /\ lpc \in {"returned", "raised"} => fitted = 1..(N1 - 1)

(* C8, as stated: a Standard-mode call with M_val > 0 and N1 >= 2 passes    *)
(* the held-out paths to fit as validation data and no exception escapes.   *)
C8_Original ==
    (mode = "Standard" /\ M_val > 0 /\ N1 >= 2) => (exc = "none" /\ lpc # "raised")

(* C15, as stated: a test path exercised at the i-th exercise date          *)
(* (i = 1..N1, at time i*T/N1) contributes payoff * exp(-r * i*T/N1): the   *)
(* time discounted over is i periods of length T/N1, one period for the     *)
(* first exercise date.                                                     *)
C15_Original ==
    (lpc \in {"test", "returned"} /\ tdec \in {"stop", "last"}) =>
        value_testing.time = (value_testing.ex + 1) * T

(* C11: price called with a mode other than "Standard" or "American Option" *)
(* raises ValueError: no regressor is created, no fit is called, and price  *)
(* does not return.                                                         *)
C11_InvalidMode ==
    (mode \notin {"Standard", "American Option"} /\ lpc \notin {"idle", "start"}) =>
        /\ lpc = "raised" /\ exc = "ValueError"
        /\ \A d \in 1..Len(regr) : regr[d].isNone
        /\ fitted = {} /\ fitEpochs = 0 /\ tdec = "none"

(* C11 witness: a call with mode "Bermudan" and two or more exercise dates  *)
(* has raised ValueError with every entry of regr still None                *)
C11_Witness ==
    /\ mode = "Bermudan" /\ N1 >= 2 /\ lpc = "raised" /\ exc = "ValueError"
    /\ Len(regr) = N1 - 1 /\ regr[1].isNone

-----------------------------------------------------------------------------
vars == <<gridVars, regVars, lsVars>>

SpecGrid == GridInit /\ [][GridNext]_vars
SpecReg == RegInit /\ [][RegNext]_vars
SpecLS == LSInit /\ [][LSNext]_vars

====
